---- MODULE Spec2Model ----
(***************************************************************************)
(* Guest-quota gating and token lifecycle of the RouteRishi backend:       *)
(*   backend/app/middleware/auth_middleware.py   (guest sessions, gate)    *)
(*   backend/app/services/jwt_service.py         (token codec)             *)
(*   backend/app/services/auth_service.py        (blacklist, lookup)       *)
(*   backend/app/api/v1/endpoints/chat.py        (chat handler)            *)
(*   backend/app/api/v1/endpoints/auth.py        (logout endpoint)         *)
(*                                                                         *)
(* Time is counted in ticks of 1/TicksPerSec second, so that the float     *)
(* clock of time.time() / datetime.now().timestamp() and the whole-second  *)
(* clock of the JWT library can both be expressed.                         *)
(***************************************************************************)
EXTENDS Integers, Sequences, FiniteSets, TLC

VARIABLES
    now,                \* wall clock, in ticks
    guest_sessions,     \* auth_middleware.guest_sessions: key -> record
    reqs,               \* chat requests in flight, one per slot
    blacklisted_tokens, \* AuthService._blacklisted_tokens of the long-lived instance
    other_blacklisted,  \* number of further entries of that set (long-lived tokens of other sessions)
    issued,             \* tokens handed out by _generate_token_pair
    users,              \* uids for which Firebase user and profile exist
    last,               \* the last operation and what it answered
    logged_out,         \* history: tokens for which a logout has succeeded
    user_chats,         \* history: successful chats per authenticated user
    admit_log,          \* history: times of guest admissions, per key
    done_log,           \* history: times of successful guest chats, per key
    windows,            \* history: created_at of every record a key has had
    clk,                \* wall clock of the message store, in ticks of 1/TicksPerMs ms
    messages,           \* Firestore: conversation id -> (document id -> message)
    msg_log,            \* history: the messages written to a conversation, in order
    conversations,      \* TravelAgent.conversations: conversation id -> history
    calls,              \* chat handlers on the message store, one per slot
    conv_docs,          \* Firestore: conversation id -> conversation document
    oauth_states,       \* auth_service._oauth_states: state -> record
    oauth_issued,       \* history: the states get_google_oauth_url has handed out
    oauth_uses,         \* history: per state, the callbacks that passed the state check
    current_user_context, \* TravelAgent.current_user_context
    runs,               \* agent invocations in flight, one per slot
    itineraries         \* history: the itineraries saved, with caller and user_id

vars == <<now, guest_sessions, reqs, blacklisted_tokens, other_blacklisted,
          issued, users, last, logged_out, user_chats,
          admit_log, done_log, windows,
          clk, messages, msg_log, conversations, calls, conv_docs,
          oauth_states, oauth_issued, oauth_uses,
          current_user_context, runs, itineraries>>

tokvars == <<blacklisted_tokens, other_blacklisted, issued, users, logged_out>>
hist == <<admit_log, done_log, windows>>
store == <<clk, messages, msg_log, conversations, calls, conv_docs>>
oauth == <<oauth_states, oauth_issued, oauth_uses>>
tool == <<current_user_context, runs, itineraries>>
ext == <<store, oauth, tool>>

----------------------------------------------------------------------------
(* Bounds of the model *)

TicksPerSec == 2
MaxHalfWindows == 3
MaxInFlight == 2
MaxGates == 7
MaxTokens == 1
MaxUserChats == 6
MaxSmallTicks == 2
MaxLifetimes == 2
MaxOther == 101

Fingerprints == {"fpA", "fpB"}
AllUsers == {"u1"}
Slots == 1..MaxInFlight

(* Program constants *)

GUEST_CHAT_LIMIT == 5
GUEST_SESSION_DURATION == 24 * 60 * 60
JWT_ACCESS_TOKEN_EXPIRE_MINUTES == 30
CLEANUP_EVERY == 100
JWT_SECRET_KEY == "server-key"

None == [none |-> TRUE]

Ticks(seconds) == seconds * TicksPerSec
FloorSec(t) == t \div TicksPerSec
HalfWindow == Ticks(GUEST_SESSION_DURATION) \div 2
AccessLifetime == Ticks(JWT_ACCESS_TOKEN_EXPIRE_MINUTES * 60)

----------------------------------------------------------------------------
(* jwt_service.py: the token codec.  A token is its payload together with  *)
(* a signature that binds the payload to the signing key.                  *)

JwtEncode(payload, key) ==
    [payload |-> payload, sig |-> [key |-> key, over |-> payload]]

JwtDecodeUnsigned(tok, key, t) ==
    IF tok.payload.exp < FloorSec(t) THEN None
    ELSE tok.payload

\* jose.jwt.decode: signature first, then exp against the clock truncated
\* to whole seconds (exp < now raises ExpiredSignatureError).
JwtDecode(tok, key, t) ==
    IF tok.sig # [key |-> key, over |-> tok.payload] THEN None
    ELSE IF tok.payload.exp < FloorSec(t) THEN None
    ELSE tok.payload

create_access_token(uid, t) ==
    JwtEncode([sub |-> uid,
               exp |-> FloorSec(t + AccessLifetime)],
              JWT_SECRET_KEY)

verify_token(tok, t) == JwtDecode(tok, JWT_SECRET_KEY, t)

verify_access_token_unchecked(tok, t) == tok.payload

verify_access_token(tok, t) == verify_token(tok, t)

\* what a client without the key can make of a token it holds
Tamper(tok) == [tok EXCEPT !.payload.exp = @ + JWT_ACCESS_TOKEN_EXPIRE_MINUTES * 60]
Presentable == issued \cup {Tamper(k) : k \in issued}

----------------------------------------------------------------------------
(* auth_service.py: blacklist and token lookup *)

NewAuthService == {}

get_auth_service == NewAuthService

logout_revoking_subject(bl, access_token) ==
    IF access_token # None
    THEN bl \cup {k \in issued : k.payload.sub = access_token.payload.sub}
    ELSE bl

logout(bl, access_token) ==
    IF access_token # None THEN bl \cup {access_token} ELSE bl

\* entries the clean-up drops: those that do not decode or whose exp lies
\* before the float clock
cleanup_expired_tokens(bl, t) ==
    {k \in bl : LET payload == verify_token(k, t)
                IN  ~(payload = None \/ Ticks(payload.exp) < t)}

BlacklistSize(bl, other) == Cardinality(bl) + other

blacklist_after_lookup(bl, other, t) ==
    IF BlacklistSize(bl, other) > 0 /\ BlacklistSize(bl, other) % CLEANUP_EVERY = 0
    THEN cleanup_expired_tokens(bl, t)
    ELSE bl

get_user_by_token_inverted(bl, other, us, tok, t) ==
    IF tok \notin blacklist_after_lookup(bl, other, t) THEN None
    ELSE LET token_data == verify_access_token(tok, t)
         IN  IF token_data = None THEN None
             ELSE IF token_data.sub \notin us THEN None
             ELSE [id |-> token_data.sub]

\* the uid of the user answered, or None
get_user_by_token(bl, other, us, tok, t) ==
    IF tok \in blacklist_after_lookup(bl, other, t) THEN None
    ELSE LET token_data == verify_access_token(tok, t)
         IN  IF token_data = None THEN None
             ELSE IF token_data.sub \notin us THEN None
             ELSE [id |-> token_data.sub]

----------------------------------------------------------------------------
(* auth_middleware.py: guest sessions *)

Expired(session, t) == t - session.created_at > Ticks(GUEST_SESSION_DURATION)

cleanup_expired_guest_sessions(gs, t) ==
    [k \in {k \in DOMAIN gs : ~Expired(gs[k], t)} |-> gs[k]]

get_or_create_without_cleanup(gs, key, t) ==
    IF key \in DOMAIN gs THEN gs
    ELSE [k \in DOMAIN gs \cup {key} |->
            IF k = key
            THEN [chat_count |-> 0, created_at |-> t, last_chat_at |-> 0]
            ELSE gs[k]]

get_or_create_purge_own_only(gs, key, t) ==
    IF key \in DOMAIN gs /\ ~Expired(gs[key], t) THEN gs
    ELSE [k \in DOMAIN gs \cup {key} |->
            IF k = key
            THEN [chat_count |-> 0, created_at |-> t, last_chat_at |-> 0]
            ELSE gs[k]]

get_or_create_guest_session(gs, key, t) ==
    LET kept == cleanup_expired_guest_sessions(gs, t)
    IN  IF key \in DOMAIN kept THEN kept
        ELSE [k \in DOMAIN kept \cup {key} |->
                IF k = key
                THEN [chat_count |-> 0, created_at |-> t, last_chat_at |-> 0]
                ELSE kept[k]]

increment_last_chat_only(gs, key, t) ==
    LET got == get_or_create_guest_session(gs, key, t)
    IN  [got EXCEPT ![key].last_chat_at = t]

increment_carrying_count(gs, key, t) ==
    LET got == get_or_create_guest_session(gs, key, t)
    IN  [got EXCEPT ![key].chat_count =
                        (IF key \in DOMAIN gs THEN gs[key].chat_count ELSE 0) + 1,
                    ![key].last_chat_at = t]

increment_guest_chat_count(gs, key, t) ==
    LET got == get_or_create_guest_session(gs, key, t)
    IN  [got EXCEPT ![key].chat_count = @ + 1, ![key].last_chat_at = t]

LimitReachedOffByOne(session) == session.chat_count > GUEST_CHAT_LIMIT

LimitReached(session) == session.chat_count >= GUEST_CHAT_LIMIT

guest_chat_status_unclamped(session) ==
    [chat_count |-> session.chat_count,
     chat_limit |-> GUEST_CHAT_LIMIT,
     remaining_chats |-> GUEST_CHAT_LIMIT - session.chat_count,
     is_limit_reached |-> session.chat_count >= GUEST_CHAT_LIMIT]

guest_chat_status(session) ==
    [chat_count |-> session.chat_count,
     chat_limit |-> GUEST_CHAT_LIMIT,
     remaining_chats |-> IF GUEST_CHAT_LIMIT - session.chat_count > 0
                         THEN GUEST_CHAT_LIMIT - session.chat_count ELSE 0,
     is_limit_reached |-> session.chat_count >= GUEST_CHAT_LIMIT]

\* AuthMiddleware.verify_token: no credentials, no lookup
mw_verify_token(bl, other, us, cred, t) ==
    IF cred = None THEN None ELSE get_user_by_token(bl, other, us, cred, t)

mw_blacklist_after(bl, other, cred, t) ==
    IF cred = None THEN bl ELSE blacklist_after_lookup(bl, other, t)

\* a key gets a fresh record in this access
Recreated(key) == key \notin DOMAIN cleanup_expired_guest_sessions(guest_sessions, now)

----------------------------------------------------------------------------
(* State after start-up: no guest record, empty blacklist, no request *)

ConvIds == {"c1", "c2"}
MaxOauthStates == 2
OauthStates == 1..MaxOauthStates
IdleCall == [pc |-> "idle", conv |-> "-", query |-> "-"]

IdleRun == [pc |-> "idle", caller |-> None]

IdleReq == [pc |-> "idle", fp |-> "-", user |-> "-", is_guest |-> FALSE]

MkLast(op, fp, cred, result, code, status) ==
    [op |-> op, fp |-> fp, cred |-> cred, result |-> result, code |-> code,
     status |-> status]

Init ==
    /\ now = 0
    /\ guest_sessions = [k \in {} |-> None]
    /\ reqs = [r \in Slots |-> IdleReq]
    /\ blacklisted_tokens = {}
    /\ other_blacklisted = 0
    /\ issued = {}
    /\ users = AllUsers
    /\ last = MkLast("start", "-", None, "-", 0, None)
    /\ logged_out = {}
    /\ user_chats = [u \in AllUsers |-> 0]
    /\ admit_log = [f \in Fingerprints |-> << >>]
    /\ done_log = [f \in Fingerprints |-> << >>]
    /\ windows = [f \in Fingerprints |-> {}]
    /\ clk = 0
    /\ messages = [c \in {} |-> None]
    /\ msg_log = [c \in ConvIds |-> << >>]
    /\ conversations = [c \in {} |-> None]
    /\ calls = [r \in Slots |-> IdleCall]
    /\ conv_docs = [c \in {} |-> None]
    /\ oauth_states = [s \in {} |-> None]
    /\ oauth_issued = {}
    /\ oauth_uses = [s \in OauthStates |-> 0]
    /\ current_user_context = None
    /\ runs = [r \in Slots |-> IdleRun]
    /\ itineraries = {}

AllIdle == \A r \in Slots : reqs[r].pc = "idle"

----------------------------------------------------------------------------
(* Time *)

TickHalfWindow ==
    /\ now + HalfWindow <= MaxHalfWindows * HalfWindow
    /\ now' = now + HalfWindow
    /\ last' = MkLast("tick", "-", None, "-", 0, None)
    /\ UNCHANGED <<guest_sessions, reqs, tokvars, user_chats, hist, ext>>

----------------------------------------------------------------------------
(* get_current_user_with_guest_limit (auth_middleware.py 127-153), the     *)
(* dependency of both chat endpoints                                       *)

ChatGateStep(r, f, cred) ==
    /\ reqs[r].pc = "idle"
    /\ LET user == mw_verify_token(blacklisted_tokens, other_blacklisted, users, cred, now)
           got == get_or_create_guest_session(guest_sessions, f, now)
       IN  /\ blacklisted_tokens' =
                  mw_blacklist_after(blacklisted_tokens, other_blacklisted, cred, now)
           /\ IF user # None
              THEN /\ user_chats[user.id] < MaxUserChats
                   /\ reqs' = [reqs EXCEPT ![r] = [pc |-> "admitted", fp |-> f,
                                                   user |-> user.id, is_guest |-> FALSE]]
                   /\ last' = MkLast("gate", f, cred, "user", 200, None)
                   /\ UNCHANGED guest_sessions
              ELSE /\ guest_sessions' = got
                   /\ IF LimitReached(got[f])
                      THEN /\ reqs' = reqs
                           /\ last' = MkLast("gate", f, cred, "rejected", 403, None)
                      ELSE /\ reqs' = [reqs EXCEPT ![r] = [pc |-> "admitted", fp |-> f,
                                                           user |-> "-", is_guest |-> TRUE]]
                           /\ last' = MkLast("gate", f, cred, "guest", 200, None)
    /\ UNCHANGED <<now, other_blacklisted, issued, users, logged_out, user_chats>>

ChatGate(r, f, cred) == ChatGateStep(r, f, cred) /\ UNCHANGED <<hist, ext>>

(* send_message / send_message_with_reasoning (chat.py 89-219, 221-351):   *)
(* validation and the Firestore writes before the agent is awaited; an     *)
(* empty message or conversation id ends the request with 400, a raising   *)
(* Firestore call with 500                                                 *)

HandlerStart(r, outcome) ==
    /\ reqs[r].pc = "admitted"
    /\ IF outcome = 200
       THEN /\ reqs' = [reqs EXCEPT ![r].pc = "agent"]
            /\ last' = MkLast("start", reqs[r].fp, None, "-", 0, None)
       ELSE /\ reqs' = [reqs EXCEPT ![r] = IdleReq]
            /\ last' = MkLast("finish", reqs[r].fp, None,
                              IF reqs[r].is_guest THEN "guest" ELSE "user", outcome, None)
    /\ UNCHANGED <<now, guest_sessions, tokvars, user_chats, hist, ext>>

(* travel_agent.run_query_async returns the output or the fallback string  *)

AgentDone(r) ==
    /\ reqs[r].pc = "agent"
    /\ reqs' = [reqs EXCEPT ![r].pc = "responded"]
    /\ last' = MkLast("agent", reqs[r].fp, None, "-", 0, None)
    /\ UNCHANGED <<now, guest_sessions, tokvars, user_chats, hist, ext>>

(* chat.py 171-219: the AI message is saved, the title updated, the guest  *)
(* count incremented and the response returned; a raising Firestore call   *)
(* ends the request with 500 before the increment                          *)

finish_increment_first(gs, req, outcome, t) ==
    IF req.is_guest
    THEN increment_guest_chat_count(gs, req.fp, t)
    ELSE gs

finish_guest_sessions(gs, req, outcome, t) ==
    IF outcome = 200 /\ req.is_guest
    THEN increment_guest_chat_count(gs, req.fp, t)
    ELSE gs

FinishStep(r, outcome) ==
    /\ reqs[r].pc = "responded"
    /\ reqs' = [reqs EXCEPT ![r] = IdleReq]
    /\ guest_sessions' = finish_guest_sessions(guest_sessions, reqs[r], outcome, now)
    /\ last' = MkLast("finish", reqs[r].fp, None,
                      IF reqs[r].is_guest THEN "guest" ELSE "user", outcome, None)
    /\ user_chats' = IF outcome = 200 /\ ~reqs[r].is_guest
                     THEN [user_chats EXCEPT ![reqs[r].user] = @ + 1]
                     ELSE user_chats
    /\ UNCHANGED <<now, tokvars>>

Finish(r, outcome) == FinishStep(r, outcome) /\ UNCHANGED <<hist, ext>>

(* GET /chat/guest-status (chat.py 353-374, auth_middleware.py 161-175) *)

GuestStatusStep(f) ==
    /\ LET got == get_or_create_guest_session(guest_sessions, f, now)
       IN  /\ guest_sessions' = got
           /\ last' = MkLast("status", f, None, "-", 200, guest_chat_status(got[f]))
    /\ UNCHANGED <<now, reqs, tokvars, user_chats>>

GuestStatus(f) == GuestStatusStep(f) /\ UNCHANGED <<hist, ext>>

----------------------------------------------------------------------------
(* Tokens: login, the logout endpoint, and direct calls on one AuthService *)

LoginTok(u) ==
    /\ u \in users
    /\ Cardinality(issued) < MaxTokens
    /\ issued' = issued \cup {create_access_token(u, now)}
    /\ last' = MkLast("login", "-", create_access_token(u, now), "-", 200, None)
    /\ UNCHANGED <<now, guest_sessions, reqs, blacklisted_tokens, other_blacklisted,
                   users, logged_out, user_chats, hist, ext>>

(* POST /auth/logout (auth.py 108-141): get_current_user_required verifies *)
(* the bearer token on the middleware's AuthService; the handler then gets *)
(* its own AuthService from get_auth_service and blacklists the token      *)
(* there.  That instance is dropped with the request.                      *)

logout_endpoint_blacklist(mw_bl, other, access_token, cred, t) ==
    LET request_service == logout(get_auth_service, access_token)
    IN  mw_blacklist_after(mw_bl, other, cred, t)

\* the schemes HTTPBearer accepts in the Authorization header
Schemes == {"Bearer", "bearer"}

\* auth.py 125-128: the token the handler extracts from the header
extract_access_token(scheme, cred) == IF scheme = "Bearer" THEN cred ELSE None

\* AuthService.logout answers False when blacklisting raises
logout_success(access_token, add_raises) == ~(access_token # None /\ add_raises)

logout_response_reraising(success) ==
    IF success THEN [code |-> 200, message |-> "Successfully logged out"]
    ELSE [code |-> 500, message |-> "Logout failed"]

\* auth.py 130-141: the HTTPException raised for a failed logout is caught
\* by the handler's own except clause
logout_response(success) ==
    IF success THEN [code |-> 200, message |-> "Successfully logged out"]
    ELSE [code |-> 200, message |-> "Logged out"]

LogoutRequest(cred, scheme, add_raises) ==
    /\ LET user == mw_verify_token(blacklisted_tokens, other_blacklisted, users, cred, now)
           access_token == extract_access_token(scheme, cred)
           success == logout_success(access_token, add_raises)
           response == logout_response(success)
       IN  IF user = None
           THEN /\ blacklisted_tokens' =
                       mw_blacklist_after(blacklisted_tokens, other_blacklisted, cred, now)
                /\ last' = MkLast("logout", "-", cred, "unauthenticated", 401, None)
                /\ UNCHANGED logged_out
           ELSE /\ blacklisted_tokens' =
                       logout_endpoint_blacklist(blacklisted_tokens, other_blacklisted,
                                                 access_token, cred, now)
                /\ last' = MkLast("logout", "-", cred, response.message, response.code,
                                  [scheme |-> scheme, add_raises |-> add_raises])
                /\ logged_out' = IF access_token # None /\ success
                                 THEN logged_out \cup {access_token} ELSE logged_out
    /\ UNCHANGED <<now, guest_sessions, reqs, other_blacklisted, issued, users, user_chats, hist, ext>>

\* a logout whose header reads "Bearer <token>" and whose blacklisting works
LogoutEndpoint(cred) == LogoutRequest(cred, "Bearer", FALSE)

get_current_user_required_lenient(bl, other, us, cred, t) ==
    IF cred = None THEN 401 ELSE 200

(* GET /auth/me (auth.py 143-158): get_current_user_required alone *)

get_current_user_required(bl, other, us, cred, t) ==
    IF mw_verify_token(bl, other, us, cred, t) = None THEN 401 ELSE 200

AuthMe(cred) ==
    /\ blacklisted_tokens' =
           mw_blacklist_after(blacklisted_tokens, other_blacklisted, cred, now)
    /\ last' = MkLast("me", "-", cred, "-",
                      get_current_user_required(blacklisted_tokens, other_blacklisted,
                                                users, cred, now), None)
    /\ UNCHANGED <<now, guest_sessions, reqs, other_blacklisted, issued, users,
                   logged_out, user_chats, hist, ext>>

(* Calls on one AuthService instance *)

SvcLogout(tok) ==
    /\ blacklisted_tokens' = logout(blacklisted_tokens, tok)
    /\ logged_out' = logged_out \cup {tok}
    /\ last' = MkLast("svc_logout", "-", tok, "-", 0, None)
    /\ UNCHANGED <<now, guest_sessions, reqs, other_blacklisted, issued, users, user_chats, hist, ext>>

SvcLogoutOther ==
    /\ other_blacklisted < MaxOther
    /\ other_blacklisted' = other_blacklisted + 1
    /\ last' = MkLast("svc_logout_other", "-", None, "-", 0, None)
    /\ UNCHANGED <<now, guest_sessions, reqs, blacklisted_tokens, issued, users,
                   logged_out, user_chats, hist, ext>>

SvcGetUser(tok) ==
    /\ blacklisted_tokens' =
           blacklist_after_lookup(blacklisted_tokens, other_blacklisted, now)
    /\ last' = MkLast("svc_lookup", "-", tok,
                      IF get_user_by_token(blacklisted_tokens, other_blacklisted,
                                           users, tok, now) = None
                      THEN "none" ELSE "user", 0, None)
    /\ UNCHANGED <<now, guest_sessions, reqs, other_blacklisted, issued, users,
                   logged_out, user_chats, hist, ext>>

SvcVerify(tok) ==
    /\ last' = MkLast("verify", "-", tok,
                      IF verify_token(tok, now) = None THEN "none" ELSE "payload",
                      0, None)
    /\ UNCHANGED <<now, guest_sessions, reqs, tokvars, user_chats, hist, ext>>

DeleteUser(u) ==
    /\ u \in users
    /\ users' = users \ {u}
    /\ last' = MkLast("delete_user", "-", None, "-", 0, None)
    /\ UNCHANGED <<now, guest_sessions, reqs, blacklisted_tokens, other_blacklisted,
                   issued, logged_out, user_chats, hist, ext>>

TickSmall ==
    /\ now % AccessLifetime < MaxSmallTicks
    /\ now' = now + 1
    /\ last' = MkLast("tick", "-", None, "-", 0, None)
    /\ UNCHANGED <<guest_sessions, reqs, tokvars, user_chats, hist, ext>>

TickLifetime ==
    /\ now + AccessLifetime <= MaxLifetimes * AccessLifetime
    /\ now' = now + AccessLifetime
    /\ last' = MkLast("tick", "-", None, "-", 0, None)
    /\ UNCHANGED <<guest_sessions, reqs, tokvars, user_chats, hist, ext>>

----------------------------------------------------------------------------
(* History variables, kept where requests are issued one at a time:        *)
(* admit_log, done_log and windows hold the times of guest admissions, of  *)
(* successful guest chats and of record creations.                         *)

Admitted(r) == reqs'[r].pc = "admitted" /\ reqs'[r].is_guest

WindowsAfter(f) ==
    IF Recreated(f) THEN [windows EXCEPT ![f] = @ \cup {now}] ELSE windows

SeqChatGate(r, f) ==
    /\ AllIdle
    /\ Len(admit_log[f]) < MaxGates
    /\ ChatGateStep(r, f, None)
    /\ admit_log' = IF Admitted(r)
                    THEN [admit_log EXCEPT ![f] = Append(@, now)]
                    ELSE admit_log
    /\ windows' = WindowsAfter(f)
    /\ UNCHANGED <<done_log, ext>>

SeqFinish(r, outcome) ==
    /\ FinishStep(r, outcome)
    /\ done_log' = IF outcome = 200 /\ reqs[r].is_guest
                   THEN [done_log EXCEPT ![reqs[r].fp] = Append(@, now)]
                   ELSE done_log
    /\ windows' = IF outcome = 200 /\ reqs[r].is_guest
                  THEN WindowsAfter(reqs[r].fp) ELSE windows
    /\ UNCHANGED <<admit_log, ext>>

SeqGuestStatus(f) ==
    /\ GuestStatusStep(f)
    /\ windows' = WindowsAfter(f)
    /\ UNCHANGED <<admit_log, done_log, ext>>

----------------------------------------------------------------------------
(* Specifications *)

StartOutcomes == {200, 400, 500}
FinishOutcomes == {200, 500}
ChatFingerprints == {"fpA"}
Credentials == {None} \cup Presentable

\* guest chat requests, any number up to MaxInFlight at a time
Next ==
    \/ TickHalfWindow
    \/ \E r \in Slots, f \in ChatFingerprints : ChatGate(r, f, None)
    \/ \E r \in Slots, o \in StartOutcomes : HandlerStart(r, o)
    \/ \E r \in Slots : AgentDone(r)
    \/ \E r \in Slots, o \in FinishOutcomes : Finish(r, o)
    \/ \E f \in Fingerprints : GuestStatus(f)

Spec == Init /\ [][Next]_vars

\* guest chat requests issued one at a time
NextSeq ==
    \/ TickHalfWindow
    \/ \E f \in ChatFingerprints : SeqChatGate(1, f)
    \/ \E o \in StartOutcomes : HandlerStart(1, o)
    \/ AgentDone(1)
    \/ \E o \in FinishOutcomes : SeqFinish(1, o)
    \/ \E f \in ChatFingerprints : SeqGuestStatus(f)

SpecSeq == Init /\ [][NextSeq]_vars

\* chat, logout and /auth/me requests with bearer tokens, one at a time
NextAuth ==
    \/ TickLifetime
    \/ \E u \in AllUsers : LoginTok(u)
    \/ \E u \in AllUsers : DeleteUser(u)
    \/ \E f \in ChatFingerprints, cred \in Credentials : ChatGate(1, f, cred)
    \/ \E o \in StartOutcomes : HandlerStart(1, o)
    \/ AgentDone(1)
    \/ \E o \in FinishOutcomes : Finish(1, o)
    \/ \E cred \in Credentials : LogoutEndpoint(cred)
    \/ \E cred \in Credentials : AuthMe(cred)

SpecAuth == Init /\ [][NextAuth]_vars

\* chat requests with bearer tokens, one at a time
NextChatAuth ==
    \/ TickLifetime
    \/ \E u \in AllUsers : LoginTok(u)
    \/ \E u \in AllUsers : DeleteUser(u)
    \/ \E f \in ChatFingerprints, cred \in Credentials : ChatGate(1, f, cred)
    \/ \E o \in StartOutcomes : HandlerStart(1, o)
    \/ AgentDone(1)
    \/ \E o \in FinishOutcomes : Finish(1, o)

SpecChatAuth == Init /\ [][NextChatAuth]_vars

\* one AuthService instance, called directly
NextSvc ==
    \/ TickSmall
    \/ TickLifetime
    \/ \E u \in AllUsers : LoginTok(u)
    \/ \E tok \in Presentable : SvcLogout(tok)
    \/ SvcLogoutOther
    \/ \E tok \in Presentable : SvcGetUser(tok)
    \/ \E tok \in Presentable : SvcVerify(tok)

SpecSvc == Init /\ [][NextSvc]_vars

----------------------------------------------------------------------------
(* Properties of the guest quota, requests issued one at a time (SpecSeq)  *)

\* entries of a log at or after time s
CountFrom(log, s) == Cardinality({i \in DOMAIN log : log[i] >= s})

\* entries of a log between s and e, both included
CountBetween(log, s, e) == Cardinality({i \in DOMAIN log : log[i] >= s /\ log[i] <= e})

GuestGateDone == last.op = "gate" /\ last.cred = None

\* admissions in the present window of key f before the gate call just made
AdmittedBefore(f) ==
    CountFrom(admit_log[f], guest_sessions[f].created_at)
        - (IF GuestGateDone /\ last.fp = f /\ last.result = "guest" THEN 1 ELSE 0)

\* every request admitted in the present window of f has completed
\* successfully in it, and nothing else has been counted in it
EachCompleted(f) ==
    AdmittedBefore(f) = CountFrom(done_log[f], guest_sessions[f].created_at)

\* C1: when guest chat requests of one fingerprint are issued one at a time
\* and each completes successfully inside the same session window, the
\* gate admits the Nth request of the window for N = 1..5 and rejects it
\* with 403 for N > 5.
C1_NthAdmittedNextRejected ==
    GuestGateDone /\ EachCompleted(last.fp) =>
        /\ (AdmittedBefore(last.fp) + 1 <= GUEST_CHAT_LIMIT => last.result = "guest")
        /\ (AdmittedBefore(last.fp) + 1 > GUEST_CHAT_LIMIT =>
               last.result = "rejected" /\ last.code = 403)

\* the 6th request of a window has just been rejected after five successes
C1_Witness ==
    /\ GuestGateDone
    /\ EachCompleted(last.fp)
    /\ AdmittedBefore(last.fp) = GUEST_CHAT_LIMIT
    /\ Len(done_log[last.fp]) = GUEST_CHAT_LIMIT
    /\ last.code = 403

\* the key f is accessed in the step: by the gate, the status endpoint or
\* the increment of a successful guest chat
Accessed(f) ==
    /\ last'.fp = f
    /\ \/ last'.op = "gate" /\ last'.cred = None
       \/ last'.op = "status"
       \/ last'.op = "finish" /\ last'.result = "guest" /\ last'.code = 200

Incremented == last'.op = "finish" /\ last'.result = "guest" /\ last'.code = 200

\* C4: an access by a fingerprint whose record is older than 24h replaces
\* the record by a fresh one created with chat_count 0 (a completing chat
\* then counts itself in it), so the gate admits the fingerprint again; a
\* record not older than 24h is never removed and its count never lowered.
C4_ResetAfterWindow ==
    [][\A f \in DOMAIN guest_sessions :
          /\ Expired(guest_sessions[f], now) /\ Accessed(f) =>
                /\ guest_sessions'[f].created_at = now
                /\ guest_sessions'[f].chat_count = (IF Incremented THEN 1 ELSE 0)
                /\ (last'.op = "gate" => last'.result = "guest")
          /\ ~Expired(guest_sessions[f], now) =>
                /\ f \in DOMAIN guest_sessions'
                /\ guest_sessions'[f].created_at = guest_sessions[f].created_at
                /\ guest_sessions'[f].chat_count >= guest_sessions[f].chat_count
      ]_vars

\* a fingerprint that had used up its five chats has been admitted again
\* on a fresh record
C4_Witness ==
    /\ GuestGateDone
    /\ last.result = "guest"
    /\ Len(done_log[last.fp]) >= GUEST_CHAT_LIMIT
    /\ guest_sessions[last.fp].chat_count = 0
    /\ guest_sessions[last.fp].created_at = now
    /\ now > Ticks(GUEST_SESSION_DURATION)

\* C7 as claimed: no interval of 24 hours, wherever it starts, holds more
\* than 5 guest admissions of one fingerprint (an interval holding most
\* admissions can be taken to start at an admission).
C7_RollingWindow ==
    \A f \in Fingerprints : \A i \in DOMAIN admit_log[f] :
        CountBetween(admit_log[f], admit_log[f][i],
                     admit_log[f][i] + Ticks(GUEST_SESSION_DURATION)) <= GUEST_CHAT_LIMIT

\* C7 as amended: the windows are fixed.  Within the 24 hours that start at
\* the created_at of a guest record at most 5 guest chats of the
\* fingerprint complete successfully.
C7_FixedWindow ==
    \A f \in Fingerprints : \A s \in windows[f] :
        CountBetween(done_log[f], s, s + Ticks(GUEST_SESSION_DURATION)) <= GUEST_CHAT_LIMIT

\* five chats at the end of one window and more right after the reset:
\* more than 5 successful chats inside 24 hours
C7_Witness ==
    \E f \in Fingerprints :
        /\ \E s \in windows[f] :
              CountBetween(done_log[f], s, s + Ticks(GUEST_SESSION_DURATION)) = GUEST_CHAT_LIMIT
        /\ \E i \in DOMAIN done_log[f] :
              CountBetween(done_log[f], done_log[f][i],
                           done_log[f][i] + Ticks(GUEST_SESSION_DURATION)) > GUEST_CHAT_LIMIT

----------------------------------------------------------------------------
(* Properties of the guest quota under concurrent requests (Spec) *)

\* C6 as claimed: under any interleaving of concurrent guest chat requests
\* of one fingerprint no more than 5 are admitted and counted within one
\* session window: the chat_count of a record never exceeds 5.
C6_CountNeverExceedsLimit ==
    \A f \in DOMAIN guest_sessions :
        guest_sessions[f].chat_count <= GUEST_CHAT_LIMIT

\* the count of key f as get_or_create_guest_session would find it
CountSeen(f) ==
    IF f \in DOMAIN guest_sessions /\ ~Expired(guest_sessions[f], now)
    THEN guest_sessions[f].chat_count
    ELSE 0

\* C9: the guest chat count is incremented exactly once by a guest chat
\* request that returns 200, in the step that follows the agent's response;
\* a guest request that ends with 400 or 500 leaves the guest records as
\* they are, and no other step raises a count.
C9_IncrementOncePerSuccess ==
    [][/\ Incremented =>
             /\ \E r \in Slots : reqs[r].pc = "responded" /\ reqs[r].is_guest
                                 /\ reqs[r].fp = last'.fp /\ reqs'[r].pc = "idle"
             /\ guest_sessions'[last'.fp].chat_count = CountSeen(last'.fp) + 1
       /\ (last'.op = "finish" /\ last'.code # 200) => guest_sessions' = guest_sessions
       /\ ~Incremented =>
             \A f \in DOMAIN guest_sessions' :
                 guest_sessions'[f].chat_count =
                     IF f \in DOMAIN guest_sessions
                        /\ guest_sessions'[f].created_at = guest_sessions[f].created_at
                     THEN guest_sessions[f].chat_count
                     ELSE 0
      ]_vars

\* a guest chat has been counted and a later guest request has ended in an
\* error
C9_Witness ==
    /\ last.op = "finish"
    /\ last.result = "guest"
    /\ last.code = 500
    /\ last.fp \in DOMAIN guest_sessions
    /\ guest_sessions[last.fp].chat_count >= 1

\* C10: get_guest_chat_status reports chat_limit 5, remaining_chats =
\* max(0, 5 - chat_count) within 0..5 and is_limit_reached exactly when
\* remaining_chats is 0; the gate admits a guest exactly when the status of
\* the fingerprint's record has is_limit_reached false.
C10_StatusAgreesWithGate ==
    /\ last.op = "status" =>
          /\ last.status.chat_count = guest_sessions[last.fp].chat_count
          /\ last.status.chat_limit = 5
          /\ last.status.remaining_chats \in 0..5
          /\ \/ last.status.remaining_chats = 5 - last.status.chat_count
             \/ last.status.remaining_chats = 0 /\ 5 - last.status.chat_count < 0
          /\ last.status.is_limit_reached <=> last.status.remaining_chats = 0
    /\ GuestGateDone =>
          (last.result = "guest" <=>
              ~guest_chat_status(guest_sessions[last.fp]).is_limit_reached)

\* the status of a record whose count has passed the limit
C10_Witness ==
    /\ last.op = "status"
    /\ last.status.chat_count > GUEST_CHAT_LIMIT
    /\ last.status.remaining_chats = 0

----------------------------------------------------------------------------
(* Properties of bearer tokens at the API (SpecAuth, SpecChatAuth) *)

\* C2 as claimed: after POST /auth/logout has answered 200 for a request
\* bearing token T, a later request bearing T is unauthenticated:
\* get_current_user_required answers 401 and the chat gate does not admit
\* it as a user.
C2_LoggedOutTokenRejected ==
    /\ (last.op = "me" /\ last.cred \in logged_out) => last.code = 401
    /\ (last.op = "gate" /\ last.cred \in logged_out) => last.result # "user"

\* a token issued by this service with the configured key, unexpired by
\* the whole-second clock, not on the middleware's blacklist, whose subject
\* exists
GoodToken(cred) ==
    /\ cred \in issued
    /\ cred.payload.exp >= FloorSec(now)
    /\ cred \notin blacklisted_tokens
    /\ cred.payload.sub \in users

\* C8: a chat request bearing a valid, non-blacklisted access token of an
\* existing user is admitted as that user however many chats the user has
\* made, is never answered 403, and no step of it touches guest_sessions.
C8_AuthenticatedUnlimited ==
    [][/\ (last'.op = "gate" /\ last'.cred # None /\ GoodToken(last'.cred)) =>
             /\ last'.result = "user"
             /\ last'.code # 403
             /\ guest_sessions' = guest_sessions
       /\ (last'.op = "finish" /\ last'.result = "user") =>
             /\ last'.code # 403
             /\ guest_sessions' = guest_sessions
      ]_vars

\* a user who has made as many chats as a guest may is admitted once more,
\* from a fingerprint whose guest quota is used up
C8_Witness ==
    /\ last.op = "gate"
    /\ last.result = "user"
    /\ user_chats[last.cred.payload.sub] >= GUEST_CHAT_LIMIT
    /\ last.fp \in DOMAIN guest_sessions
    /\ guest_sessions[last.fp].chat_count >= GUEST_CHAT_LIMIT

----------------------------------------------------------------------------
(* Properties of one AuthService instance and of the token codec (SpecSvc) *)

\* C3 as claimed: once logout has put T on the blacklist of an AuthService,
\* every later get_user_by_token(T) on it returns None, and T is off the
\* blacklist only when verification rejects it.
C3_BlacklistedStaysRejected ==
    /\ (last.op = "svc_lookup" /\ last.cred \in logged_out) => last.result = "none"
    /\ \A k \in logged_out \ blacklisted_tokens : verify_token(k, now) = None

\* C5 as claimed: verify_token returns the payload exactly when the token
\* was signed with the configured key and its exp lies in the future.
C5_ExpInTheFuture ==
    last.op = "verify" =>
        (last.result = "payload" <=>
            (last.cred \in issued /\ Ticks(last.cred.payload.exp) > now))

\* C5 as amended: verify_token returns the payload exactly when the token
\* was signed with the configured key and its exp is not earlier than the
\* clock truncated to whole seconds; blacklist and users play no part.
C5_ExpNotBeforeWholeSecond ==
    last.op = "verify" =>
        (last.result = "payload" <=>
            (last.cred \in issued /\ last.cred.payload.exp >= FloorSec(now)))

\* a blacklisted token is verified during the second that starts at its exp
C5_Witness ==
    /\ last.op = "verify"
    /\ last.result = "payload"
    /\ last.cred \in blacklisted_tokens
    /\ Ticks(last.cred.payload.exp) < now

----------------------------------------------------------------------------
(* Properties of the guest records under concurrent requests, continued    *)
(* (Spec)                                                                  *)

\* _get_or_create_guest_session is called in the step: by the gate on its
\* guest path, by the status endpoint or by the increment of a successful
\* guest chat
GetOrCreateCalled ==
    \/ last'.op = "gate" /\ last'.result # "user"
    \/ last'.op = "status"
    \/ Incremented

\* C11: right after a call of _get_or_create_guest_session at time t no
\* record of any fingerprint has t - created_at > 24h and the calling
\* fingerprint has a record; a step without such a call removes no record
\* and replaces none.
C11_PurgedOnlyOnAccess ==
    [][/\ GetOrCreateCalled =>
             /\ \A f \in DOMAIN guest_sessions' : ~Expired(guest_sessions'[f], now')
             /\ last'.fp \in DOMAIN guest_sessions'
       /\ ~GetOrCreateCalled =>
             \A f \in DOMAIN guest_sessions :
                 /\ f \in DOMAIN guest_sessions'
                 /\ guest_sessions'[f].created_at = guest_sessions[f].created_at
      ]_vars

\* a status call of fpB has left no record of fpA, whose admitted request
\* is still in flight: the record of another fingerprint has been purged
C11_Witness ==
    /\ last.op = "status"
    /\ last.fp = "fpB"
    /\ "fpA" \notin DOMAIN guest_sessions
    /\ \E r \in Slots : reqs[r].pc # "idle" /\ reqs[r].is_guest /\ reqs[r].fp = "fpA"

----------------------------------------------------------------------------
(* Properties of get_current_user_required (SpecRequired) *)

\* requests to the endpoints that require authentication, beside the guest
\* status endpoint
NextRequired ==
    \/ TickSmall
    \/ TickLifetime
    \/ \E u \in AllUsers : LoginTok(u)
    \/ \E u \in AllUsers : DeleteUser(u)
    \/ \E cred \in Credentials : LogoutEndpoint(cred)
    \/ \E cred \in Credentials : AuthMe(cred)
    \/ \E f \in ChatFingerprints : GuestStatus(f)

SpecRequired == Init /\ [][NextRequired]_vars

\* logout requests with either scheme, blacklisting working or raising
NextLogout ==
    \/ TickSmall
    \/ TickLifetime
    \/ \E u \in AllUsers : LoginTok(u)
    \/ \E u \in AllUsers : DeleteUser(u)
    \/ \E cred \in Credentials, scheme \in Schemes, add_raises \in BOOLEAN :
           LogoutRequest(cred, scheme, add_raises)

SpecLogout == Init /\ [][NextLogout]_vars

\* the answer of /auth/me, which is get_current_user_required alone: 200
\* exactly for a bearer token that verifies
RequiredAnswer ==
    last.op = "me" =>
        /\ last.code \in {200, 401}
        /\ last.code = 200 <=> (last.cred # None /\ GoodToken(last.cred))

\* C12: get_current_user_required returns a user only for a bearer token
\* that verifies (signed with the configured key, not expired as
\* verify_token decides it, not on the blacklist, subject a user whose
\* record and profile exist); for every other token and for missing
\* credentials it answers 401, and it leaves guest_sessions as it is.
C12_RequiredOrUnauthorized ==
    [][/\ RequiredAnswer'
       /\ last'.op \in {"me", "logout"} => guest_sessions' = guest_sessions
      ]_vars

\* an expired token of an existing user has been answered 401 while a
\* guest record exists
C12_Witness ==
    /\ last.op = "me"
    /\ last.code = 401
    /\ last.cred \in issued
    /\ last.cred.payload.sub \in users
    /\ last.cred.payload.exp < FloorSec(now)
    /\ guest_sessions # [k \in {} |-> None]

----------------------------------------------------------------------------
(* Refresh tokens: jwt_service.py 17-23 and 38-45, auth_service.py 168-224 *)
(* and 538-548.  A refresh token differs from an access token only in its  *)
(* lifetime; both carry sub and exp and are signed with the same key.      *)

MaxIssued == 4
MaxWeeks == 1

JWT_REFRESH_TOKEN_EXPIRE_DAYS == 7

RefreshLifetime == Ticks(JWT_REFRESH_TOKEN_EXPIRE_DAYS * 24 * 60 * 60)

create_refresh_token(uid, t) ==
    JwtEncode([sub |-> uid,
               exp |-> FloorSec(t + RefreshLifetime)],
              JWT_SECRET_KEY)

verify_refresh_token_long_lived(tok, t) ==
    IF tok.payload.exp - FloorSec(t) <= JWT_ACCESS_TOKEN_EXPIRE_MINUTES * 60 THEN None
    ELSE JwtDecode(tok, JWT_SECRET_KEY, t)

verify_refresh_token(tok, t) == JwtDecode(tok, JWT_SECRET_KEY, t)

generate_token_pair(user_id, t) ==
    [access_token |-> create_access_token(user_id, t),
     refresh_token |-> create_refresh_token(user_id, t)]

PairTokens(pair) == {pair.access_token, pair.refresh_token}

refresh_for_any_subject(us, tok, t) ==
    LET token_data == verify_refresh_token(tok, t)
    IN  IF token_data = None THEN None
        ELSE generate_token_pair(token_data.sub, t)

\* the pair answered, or None where the code raises 401
refresh_access_token(us, tok, t) ==
    LET token_data == verify_refresh_token(tok, t)
    IN  IF token_data = None THEN None
        ELSE IF token_data.sub \notin us THEN None
        ELSE generate_token_pair(token_data.sub, t)

\* login_with_email on success: _generate_token_pair for an existing user
LoginPair(u) ==
    /\ u \in users
    /\ Cardinality(issued \cup PairTokens(generate_token_pair(u, now))) <= MaxIssued
    /\ issued' = issued \cup PairTokens(generate_token_pair(u, now))
    /\ last' = MkLast("login_pair", "-", None, "-", 200, generate_token_pair(u, now))
    /\ UNCHANGED <<now, guest_sessions, reqs, blacklisted_tokens, other_blacklisted,
                   users, logged_out, user_chats, hist, ext>>

\* POST /auth/refresh (auth.py 80-106)
RefreshEndpoint(tok) ==
    /\ LET tokens == refresh_access_token(users, tok, now)
       IN  IF tokens = None
           THEN /\ last' = MkLast("refresh", "-", tok, "-", 401, None)
                /\ UNCHANGED issued
           ELSE /\ Cardinality(issued \cup PairTokens(tokens)) <= MaxIssued
                /\ issued' = issued \cup PairTokens(tokens)
                /\ last' = MkLast("refresh", "-", tok, "-", 200, tokens)
    /\ UNCHANGED <<now, guest_sessions, reqs, blacklisted_tokens, other_blacklisted,
                   users, logged_out, user_chats, hist, ext>>

TickWeek ==
    /\ now < MaxWeeks * RefreshLifetime
    /\ now' = now + RefreshLifetime
    /\ last' = MkLast("tick", "-", None, "-", 0, None)
    /\ UNCHANGED <<guest_sessions, reqs, tokvars, user_chats, hist, ext>>

\* login, refresh and logout against one AuthService
NextRefresh ==
    \/ TickSmall
    \/ TickWeek
    \/ \E u \in AllUsers : LoginPair(u)
    \/ \E u \in AllUsers : DeleteUser(u)
    \/ \E tok \in Presentable : RefreshEndpoint(tok)
    \/ \E tok \in Presentable : SvcLogout(tok)
    \/ \E tok \in Presentable : SvcGetUser(tok)

SpecRefresh == Init /\ [][NextRefresh]_vars

----------------------------------------------------------------------------
(* Properties of refresh and logout against one AuthService (SpecRefresh)  *)

\* the answer of the refresh just made
RefreshAnswer ==
    last.op = "refresh" =>
        IF verify_refresh_token(last.cred, now) # None /\ last.cred.payload.sub \in users
        THEN /\ last.code = 200
             /\ last.status.access_token.payload.sub = last.cred.payload.sub
             /\ last.status.refresh_token.payload.sub = last.cred.payload.sub
             /\ verify_access_token(last.status.access_token, now) # None
             /\ verify_refresh_token(last.status.refresh_token, now) # None
             /\ PairTokens(last.status) \subseteq issued
        ELSE /\ last.code = 401
             /\ last.status = None

\* C13: refresh_access_token answers a new access/refresh pair for the
\* subject of the presented token when that token verifies and the user
\* exists; for a token that does not verify (tampered or expired) and for
\* the token of a user who is not found it answers 401 and issues nothing.
\* (Every token signed with the key carries a sub: _generate_token_pair is
\* the only signer.)
C13_RefreshPairOrUnauthorized ==
    [][/\ RefreshAnswer'
       /\ (last'.op = "refresh" /\ last'.code = 401) => issued' = issued
      ]_vars

\* a refresh token has bought a pair that outlives it
C13_Witness ==
    /\ last.op = "refresh"
    /\ last.code = 200
    /\ last.status.refresh_token.payload.exp > last.cred.payload.exp
    /\ \E u \in AllUsers : last.cred = create_refresh_token(u, 0)
    /\ last.status.access_token \notin blacklisted_tokens
    /\ now > 0

\* token k is accepted by get_user_by_token now
Accepted(k) ==
    get_user_by_token(blacklisted_tokens, other_blacklisted, users, k, now) # None

\* a token never presented to logout is accepted whenever it verifies and
\* its user exists, and still buys a pair at refresh
OthersStayAccepted ==
    \A k \in issued :
        (verify_token(k, now) # None /\ k.payload.sub \in users) =>
            /\ k \notin logged_out => Accepted(k)
            /\ refresh_access_token(users, k, now) # None

\* C14 as claimed: logout invalidates only the token presented; the other
\* tokens of the user stay accepted, and a refresh made after a logout
\* yields an access token that get_user_by_token accepts.
C14_RefreshedTokenAccepted ==
    /\ OthersStayAccepted
    /\ (last.op = "refresh" /\ last.code = 200) => Accepted(last.status.access_token)

\* C14 as amended: only strings presented to logout are ever blacklisted
\* and every other token stays accepted; the access token a refresh yields
\* is accepted unless it is itself a string that was logged out, which
\* happens when it is issued in the same second as a logged-out access
\* token of the same user (equal sub and exp give the same string).
C14_RefreshedTokenAcceptedUnlessSameString ==
    /\ OthersStayAccepted
    /\ blacklisted_tokens \subseteq logged_out
    /\ (last.op = "refresh" /\ last.code = 200) =>
          \/ Accepted(last.status.access_token)
          \/ /\ last.status.access_token \in logged_out
             /\ last.status.access_token = create_access_token(last.cred.payload.sub, now)

\* after the logout of an access token, its refresh token has bought a
\* different access token, which is accepted
C14_Witness ==
    /\ last.op = "refresh"
    /\ last.code = 200
    /\ \E u \in AllUsers :
          /\ last.cred = create_refresh_token(u, 0)
          /\ create_access_token(u, 0) \in blacklisted_tokens
    /\ last.status.access_token \notin blacklisted_tokens
    /\ Accepted(last.status.access_token)

----------------------------------------------------------------------------
(* The chat handler on the message store and the agent's memory:           *)
(* chat.py 141-149 and 171-179, firestore_service.py 146-172,              *)
(* travel_agent.py 90-126.  Firestore calls do not suspend, so the handler *)
(* runs without interruption up to the agent's ainvoke and again from its  *)
(* return to the response.                                                 *)

TicksPerMs == 2
MaxClk == 3
MaxMessages == 4

Queries == {"q1", "q2"}
Outputs == {"o1"}
FALLBACK == "I encountered an error while processing your request."

\* f"msg_{int(timestamp * 1000)}_{conversation_id}_{suffix}"
MessageId(t, conversation_id, suffix) ==
    [ms |-> t \div TicksPerMs, conversation_id |-> conversation_id, suffix |-> suffix]

ChatMessage(t, conversation_id, suffix, role, content) ==
    [id |-> MessageId(t, conversation_id, suffix), role |-> role,
     content |-> content, timestamp |-> t, conversation_id |-> conversation_id]

\* document(message.id).set(...): a document with that id is replaced
add_message(ms, message) ==
    LET c == message.conversation_id
        docs == IF c \in DOMAIN ms THEN ms[c] ELSE [d \in {} |-> None]
        docs2 == [d \in DOMAIN docs \cup {message.id} |->
                    IF d = message.id THEN message ELSE docs[d]]
    IN  [k \in DOMAIN ms \cup {c} |-> IF k = c THEN docs2 ELSE ms[k]]

\* chat.py 126-136: the document of a new conversation
Conversation(user) ==
    [user_id |-> IF user = None THEN "guest" ELSE user.id,
     is_guest |-> user = None,
     message_count |-> 0]

\* chat.py 118-138: get_conversation, and create_conversation when there is
\* no document
ensure_conversation(cd, conversation_id, user) ==
    IF conversation_id \in DOMAIN cd THEN cd
    ELSE [k \in DOMAIN cd \cup {conversation_id} |->
            IF k = conversation_id THEN Conversation(user) ELSE cd[k]]

\* batch.update(conv_ref, {'message_count': firestore.Increment(1), ...})
increment_message_count(cd, conversation_id) ==
    [cd EXCEPT ![conversation_id].message_count = @ + 1]

\* self.conversations.setdefault(conversation_id, ChatMessageHistory())
setdefault(cs, conversation_id) ==
    [k \in DOMAIN cs \cup {conversation_id} |->
        IF k \in DOMAIN cs THEN cs[k] ELSE << >>]

run_query_forgetting_user(cs, conversation_id, user_query, outcome, output) ==
    IF outcome = "output"
    THEN [cs EXCEPT ![conversation_id] = Append(@, [role |-> "ai", content |-> output])]
    ELSE cs

\* the memory after the agent's invocation has returned or raised
run_query_async(cs, conversation_id, user_query, outcome, output) ==
    IF outcome = "output"
    THEN [cs EXCEPT ![conversation_id] =
             Append(Append(@, [role |-> "human", content |-> user_query]),
                    [role |-> "ai", content |-> output])]
    ELSE cs

Response(outcome, output) == IF outcome = "output" THEN output ELSE FALLBACK

RECURSIVE TotalLen(_, _)
TotalLen(log, S) ==
    IF S = {} THEN 0
    ELSE LET c == CHOOSE x \in S : TRUE
         IN  Len(log[c]) + TotalLen(log, S \ {c})

TickClk ==
    /\ clk < MaxClk
    /\ clk' = clk + 1
    /\ last' = MkLast("tick", "-", None, "-", 0, None)
    /\ UNCHANGED <<now, guest_sessions, reqs, tokvars, user_chats, hist,
                   messages, msg_log, conversations, calls, conv_docs, oauth, tool>>

\* send_message up to the agent's ainvoke: the conversation document is
\* created when there is none, the user message is saved and run_query_async
\* looks up the history; a raising Firestore call ends the request with 500,
\* before or after the conversation document is created
SendUserMessage(r, c, q, code, user) ==
    /\ calls[r].pc = "idle"
    /\ TotalLen(msg_log, ConvIds) + 2 <= MaxMessages
    /\ LET user_message == ChatMessage(clk, c, "user", "user", q)
           created == ensure_conversation(conv_docs, c, user)
       IN  IF code = 200
           THEN /\ messages' = add_message(messages, user_message)
                /\ conv_docs' = increment_message_count(created, c)
                /\ msg_log' = [msg_log EXCEPT ![c] = Append(@, user_message)]
                /\ conversations' = setdefault(conversations, c)
                /\ calls' = [calls EXCEPT ![r] = [pc |-> "agent", conv |-> c, query |-> q]]
           ELSE /\ conv_docs' \in {conv_docs, created}
                /\ UNCHANGED <<messages, msg_log, conversations, calls>>
    /\ last' = MkLast("send", "-", None, "-", code,
                      [conv |-> c, query |-> q, response |-> "-"])
    /\ UNCHANGED <<now, guest_sessions, reqs, tokvars, user_chats, hist, clk, oauth, tool>>

\* from the return of ainvoke to the response: the memory is updated, the
\* AI message saved; the save raises when the conversation document is gone
AgentReturn(r, outcome, output, code) ==
    /\ calls[r].pc = "agent"
    /\ code = 200 => calls[r].conv \in DOMAIN conv_docs
    /\ LET c == calls[r].conv
           response == Response(outcome, output)
           ai_message == ChatMessage(clk, c, "ai", "assistant", response)
       IN  /\ conversations' = run_query_async(conversations, c, calls[r].query, outcome, output)
           /\ IF code = 200
              THEN /\ messages' = add_message(messages, ai_message)
                   /\ conv_docs' = increment_message_count(conv_docs, c)
                   /\ msg_log' = [msg_log EXCEPT ![c] = Append(@, ai_message)]
              ELSE UNCHANGED <<messages, msg_log, conv_docs>>
           /\ last' = MkLast("agent_return", "-", None, outcome, code,
                             [conv |-> c, query |-> calls[r].query, response |-> response])
    /\ calls' = [calls EXCEPT ![r] = IdleCall]
    /\ UNCHANGED <<now, guest_sessions, reqs, tokvars, user_chats, hist, clk, oauth, tool>>

AgentOutcomes == {"output", "raise"}
SaveOutcomes == {200, 500}

\* chat requests on the conversations, any number up to MaxInFlight at a time
NextConv ==
    \/ TickClk
    \/ \E r \in Slots, c \in ConvIds, q \in Queries, code \in SaveOutcomes :
           SendUserMessage(r, c, q, code, None)
    \/ \E r \in Slots, o \in AgentOutcomes, out \in Outputs, code \in SaveOutcomes :
           AgentReturn(r, o, out, code)

SpecConv == Init /\ [][NextConv]_vars

\* the same requests with the clock standing still
NextAgent ==
    \/ \E r \in Slots, c \in ConvIds, q \in Queries, code \in SaveOutcomes :
           SendUserMessage(r, c, q, code, None)
    \/ \E r \in Slots, o \in AgentOutcomes, out \in Outputs, code \in SaveOutcomes :
           AgentReturn(r, o, out, code)

SpecAgent == Init /\ [][NextAgent]_vars

----------------------------------------------------------------------------
(* Properties of the message store (SpecConv) and of the agent's memory    *)
(* (SpecAgent)                                                             *)

\* C15 as claimed: within a conversation every message written has its own
\* id, so no write replaces an earlier message, and a message written later
\* never carries an earlier timestamp, for any interleaving of chat
\* requests on the conversation.
C15_DistinctIdsMonotoneTimestamps ==
    \A c \in ConvIds :
        /\ \A i, j \in DOMAIN msg_log[c] :
              i < j => /\ msg_log[c][i].id # msg_log[c][j].id
                       /\ msg_log[c][i].timestamp <= msg_log[c][j].timestamp
        /\ c \in DOMAIN messages => Cardinality(DOMAIN messages[c]) = Len(msg_log[c])


\* the history TravelAgent holds for a conversation; none is an empty one
HistoryOf(cs, c) == IF c \in DOMAIN cs THEN cs[c] ELSE << >>

\* C16: a run_query_async that succeeds appends the user query followed by
\* the agent output, and nothing else, to the history of its conversation
\* and returns the output; one whose invocation raises returns the fallback
\* string and appends nothing; the histories of all other conversations
\* stay as they are, and no other step changes the content of a history.
C16_HistoryPerConversation ==
    [][/\ last'.op = "agent_return" =>
             LET c == last'.status.conv
             IN  /\ last'.result = "output" =>
                       /\ HistoryOf(conversations', c) =
                              HistoryOf(conversations, c) \o
                                  <<[role |-> "human", content |-> last'.status.query],
                                    [role |-> "ai", content |-> last'.status.response]>>
                       /\ last'.status.response \in Outputs
                 /\ last'.result = "raise" =>
                       /\ HistoryOf(conversations', c) = HistoryOf(conversations, c)
                       /\ last'.status.response = FALLBACK
                 /\ \A d \in ConvIds \ {c} :
                       HistoryOf(conversations', d) = HistoryOf(conversations, d)
       /\ last'.op # "agent_return" =>
             \A d \in ConvIds : HistoryOf(conversations', d) = HistoryOf(conversations, d)
      ]_vars

\* one conversation holds two exchanges with different queries, and a run
\* on another conversation has raised and left its history empty
C16_Witness ==
    /\ last.op = "agent_return"
    /\ last.result = "raise"
    /\ \E c \in ConvIds :
          /\ c # last.status.conv
          /\ Len(HistoryOf(conversations, c)) = 4
          /\ HistoryOf(conversations, c)[1].content # HistoryOf(conversations, c)[3].content
    /\ last.status.conv \in DOMAIN conversations
    /\ conversations[last.status.conv] = << >>

----------------------------------------------------------------------------
(* Google OAuth states: auth_service.py 24, 290-342 and 344-446.  The      *)
(* states live in a module-level dictionary shared by all AuthService      *)
(* instances.                                                              *)

MaxTtls == 2

OAUTH_STATE_TTL == 600

FlowTypes == {"login", "signup"}

\* the states older than ten minutes are dropped after the new one is stored
get_google_oauth_url(st, state, flow_type, t) ==
    LET stored == [k \in DOMAIN st \cup {state} |->
                      IF k = state THEN [flow_type |-> flow_type, timestamp |-> t]
                      ELSE st[k]]
    IN  [k \in {k \in DOMAIN stored : ~(t - stored[k].timestamp > Ticks(OAUTH_STATE_TTL))}
            |-> stored[k]]

callback_keeping_state(st, state) == st

\* del _oauth_states[state]
callback_states(st, state) == [k \in DOMAIN st \ {state} |-> st[k]]

\* what the callback answers once the state is accepted: 500 when Google
\* refuses the code, 409 for a signup of an existing user, 404 for a login
\* of an unknown one, otherwise the tokens
callback_code(flow_type, existing_user, google_ok) ==
    IF ~google_ok THEN 500
    ELSE IF existing_user /\ flow_type = "signup" THEN 409
    ELSE IF ~existing_user /\ flow_type = "login" THEN 404
    ELSE 200

\* GET /auth/google/login and /auth/google/signup; secrets.token_urlsafe
\* answers a state not handed out before
OauthUrl(state, flow_type) ==
    /\ state \notin oauth_issued
    /\ oauth_states' = get_google_oauth_url(oauth_states, state, flow_type, now)
    /\ oauth_issued' = oauth_issued \cup {state}
    /\ last' = MkLast("oauth_url", "-", None, "-", 200, [state |-> state])
    /\ UNCHANGED <<now, guest_sessions, reqs, tokvars, user_chats, hist, store, oauth_uses, tool>>

\* handle_google_oauth_callback for the Google account u
OauthCallback(state, u, google_ok) ==
    /\ IF state \notin DOMAIN oauth_states
       THEN /\ last' = MkLast("oauth_callback", "-", None, "Invalid OAuth state", 400,
                              [state |-> state])
            /\ UNCHANGED <<oauth_states, oauth_uses, issued, users>>
       ELSE LET code == callback_code(oauth_states[state].flow_type, u \in users, google_ok)
                tokens == generate_token_pair(u, now)
            IN  /\ oauth_states' = callback_states(oauth_states, state)
                /\ oauth_uses' = [oauth_uses EXCEPT ![state] = @ + 1]
                /\ last' = MkLast("oauth_callback", "-", None, "accepted", code,
                                  [state |-> state])
                /\ IF code = 200
                   THEN /\ Cardinality(issued \cup PairTokens(tokens)) <= MaxIssued
                        /\ issued' = issued \cup PairTokens(tokens)
                        /\ users' = users \cup {u}
                   ELSE UNCHANGED <<issued, users>>
    /\ UNCHANGED <<now, guest_sessions, reqs, blacklisted_tokens, other_blacklisted,
                   logged_out, user_chats, hist, store, oauth_issued, tool>>

TickTtl ==
    /\ now + Ticks(OAUTH_STATE_TTL) <= MaxTtls * Ticks(OAUTH_STATE_TTL) + MaxSmallTicks
    /\ now' = now + Ticks(OAUTH_STATE_TTL)
    /\ last' = MkLast("tick", "-", None, "-", 0, None)
    /\ UNCHANGED <<guest_sessions, reqs, tokvars, user_chats, hist, ext>>

\* the OAuth redirect flow
NextOauth ==
    \/ TickSmall
    \/ TickTtl
    \/ \E u \in AllUsers : DeleteUser(u)
    \/ \E s \in OauthStates, flow \in FlowTypes : OauthUrl(s, flow)
    \/ \E s \in OauthStates, u \in AllUsers, ok \in BOOLEAN : OauthCallback(s, u, ok)

SpecOauth == Init /\ [][NextOauth]_vars

\* C17: a state handed out by get_google_oauth_url passes the check of
\* handle_google_oauth_callback at most once: the callback that accepts it
\* deletes it, whatever the rest of the callback answers, and a callback
\* with a state that is not stored (never handed out, used or purged)
\* answers 400 'Invalid OAuth state' and issues no tokens.
C17_StateAcceptedAtMostOnce ==
    [][/\ \A s \in OauthStates : oauth_uses'[s] <= 1
       /\ last'.op = "oauth_callback" =>
             LET s == last'.status.state
             IN  IF s \in DOMAIN oauth_states
                 THEN /\ last'.result = "accepted"
                      /\ s \notin DOMAIN oauth_states'
                 ELSE /\ last'.result = "Invalid OAuth state"
                      /\ last'.code = 400
                      /\ issued' = issued
                      /\ oauth_states' = oauth_states
      ]_vars

\* a state whose first callback failed at Google has been presented again
\* and refused
C17_Witness ==
    /\ last.op = "oauth_callback"
    /\ last.code = 400
    /\ oauth_uses[last.status.state] = 1
    /\ issued = {}

----------------------------------------------------------------------------
(* Properties of the blacklist clean-up (SpecSvc) *)

\* C18 as claimed: entries leave the blacklist only in a get_user_by_token
\* that finds a positive multiple of 100 entries, and that clean-up removes
\* exactly the entries that no longer verify: every entry that verify_token
\* still accepts is kept.
C18_CleanupRemovesUnverifiable ==
    [][LET removed == blacklisted_tokens \ blacklisted_tokens'
           size == BlacklistSize(blacklisted_tokens, other_blacklisted)
           due == size > 0 /\ size % CLEANUP_EVERY = 0
       IN  /\ removed # {} => (last'.op = "svc_lookup" /\ due)
           /\ (last'.op = "svc_lookup" /\ due) =>
                 removed = {k \in blacklisted_tokens : verify_token(k, now) = None}
      ]_vars

----------------------------------------------------------------------------
(* Properties of chat requests with a bad bearer token (SpecChatAuth) *)

\* the token does not verify: tampered, expired, or on the blacklist
BadToken(cred) ==
    \/ verify_token(cred, now) = None
    \/ cred \in blacklisted_tokens

\* C19: a chat request whose bearer token is tampered, expired or
\* blacklisted is never answered 401; it goes the guest way: it is admitted
\* as a guest when the record of its fingerprint is below the limit and
\* rejected with 403 when it is not.
C19_BadTokenIsGuest ==
    (last.op = "gate" /\ last.cred # None /\ BadToken(last.cred)) =>
        /\ last.code # 401
        /\ last.result \in {"guest", "rejected"}
        /\ last.fp \in DOMAIN guest_sessions
        /\ last.result = "guest" <=> ~LimitReached(guest_sessions[last.fp])
        /\ last.code = (IF last.result = "guest" THEN 200 ELSE 403)

\* a request with an expired token of an existing user has met a used-up
\* guest quota
C19_Witness ==
    /\ last.op = "gate"
    /\ last.cred \in issued
    /\ last.cred.payload.sub \in users
    /\ last.cred.payload.exp < FloorSec(now)
    /\ last.result = "rejected"
    /\ last.code = 403


----------------------------------------------------------------------------
(* Properties of the chat count of a guest record (SpecSeq) *)

\* C20: the chat_count of every guest record equals the number of guest
\* chats of its fingerprint that completed successfully at or after the
\* record's created_at; a completion that finds the record of its
\* admission expired leaves a fresh record whose chat_count is 1.
C20_ChatCountIsCompletedSinceCreation ==
    \A f \in DOMAIN guest_sessions :
        guest_sessions[f].chat_count =
            CountFrom(done_log[f], guest_sessions[f].created_at)

\* a chat admitted under a record that had counted a chat completed after
\* that record expired: the fresh record counts 1
C20_Witness ==
    /\ last.op = "finish"
    /\ last.code = 200
    /\ last.fp \in DOMAIN guest_sessions
    /\ guest_sessions[last.fp].created_at = now
    /\ guest_sessions[last.fp].chat_count = 1
    /\ Len(done_log[last.fp]) >= 2
    /\ \E i \in DOMAIN admit_log[last.fp] :
          /\ admit_log[last.fp][i] >= done_log[last.fp][1]
          /\ now - admit_log[last.fp][i] > Ticks(GUEST_SESSION_DURATION)
          /\ \A j \in DOMAIN admit_log[last.fp] : j <= i


----------------------------------------------------------------------------
(* travel_agent.py 106-116, tool_definitions.py 124-134: the user context  *)
(* of the agent and the create_itinerary_pdf tool                          *)

\* the callers of POST /chat/message: a user, or None for a guest
Callers == {[id |-> u] : u \in AllUsers} \cup {None}

\* a user_id argument the call does not carry (Python's None)
NoUserId == "-"

UserIds == AllUsers \cup {NoUserId}

\* chat.py 164
user_context(user) == IF user = None THEN None ELSE [user_id |-> user.id]

\* the user_id create_and_save_complete_itinerary is called with
create_itinerary_pdf_wrapper(user_id, context) ==
    IF user_id = NoUserId /\ context # None THEN context.user_id ELSE user_id

\* run_query_async up to the agent's ainvoke
AgentInvoke(r, user) ==
    /\ runs[r].pc = "idle"
    /\ current_user_context' = user_context(user)
    /\ runs' = [runs EXCEPT ![r] = [pc |-> "agent", caller |-> user]]
    /\ last' = MkLast("invoke", "-", None, "-", 0, None)
    /\ UNCHANGED <<now, guest_sessions, reqs, tokvars, user_chats, hist,
                   store, oauth, itineraries>>

\* the agent of request r calls create_itinerary_pdf during its ainvoke
CreateItineraryPdf(r, user_id) ==
    /\ runs[r].pc = "agent"
    /\ LET saved == [caller |-> runs[r].caller,
                     explicit |-> user_id,
                     user_id |-> create_itinerary_pdf_wrapper(user_id, current_user_context)]
       IN  /\ itineraries' = itineraries \cup {saved}
           /\ last' = MkLast("create_itinerary_pdf", "-", None, "-", 0, saved)
    /\ UNCHANGED <<now, guest_sessions, reqs, tokvars, user_chats, hist,
                   store, oauth, current_user_context, runs>>

\* ainvoke returns or raises; the context is left as it is
AgentFinish(r) ==
    /\ runs[r].pc = "agent"
    /\ runs' = [runs EXCEPT ![r] = IdleRun]
    /\ last' = MkLast("agent_finish", "-", None, "-", 0, None)
    /\ UNCHANGED <<now, guest_sessions, reqs, tokvars, user_chats, hist,
                   store, oauth, current_user_context, itineraries>>

\* chat requests whose agent may call the tool, up to MaxInFlight at a time
NextTool ==
    \/ \E r \in Slots, user \in Callers : AgentInvoke(r, user)
    \/ \E r \in Slots, user_id \in UserIds : CreateItineraryPdf(r, user_id)
    \/ \E r \in Slots : AgentFinish(r)

SpecTool == Init /\ [][NextTool]_vars

----------------------------------------------------------------------------
(* Properties of the itineraries saved by the tool (SpecTool) *)

\* C21 as claimed: an itinerary created without an explicit user_id is
\* saved under the user_id of the request whose agent called the tool (None
\* for a guest), whatever other chat requests are in flight.
C21_ItinerarySavedForCaller ==
    \A i \in itineraries :
        i.explicit = NoUserId =>
            i.user_id = (IF i.caller = None THEN NoUserId ELSE i.caller.id)


----------------------------------------------------------------------------
(* Properties of the conversation documents (SpecConv) *)

\* the messages stored in conversation c
StoredMessages(c) == IF c \in DOMAIN messages THEN DOMAIN messages[c] ELSE {}

\* C22 as claimed: after any sequence or interleaving of chat requests the
\* message_count of every conversation document equals the number of
\* messages stored in that conversation.
C22_MessageCountIsStoredMessages ==
    \A c \in DOMAIN conv_docs :
        conv_docs[c].message_count = Cardinality(StoredMessages(c))


----------------------------------------------------------------------------
(* The conversation endpoints: conversations.py 40-146,                    *)
(* firestore_service.py 44-57, 68-91, 174-206 and 368-382.  The caller has *)
(* passed get_current_user_required.                                       *)

\* the authenticated callers
ConvUsers == {"u1", "u2"}

\* the callers of POST /chat/message: a user, or None for a guest
ChatCallers == {[id |-> "u1"], None}

Raises == {FALSE, TRUE}

user_owns_any_existing(cd, user_id, conversation_id, raised) ==
    ~raised /\ conversation_id \in DOMAIN cd

\* a raising get_conversation is caught and answered False
user_owns_conversation(cd, user_id, conversation_id, raised) ==
    IF raised THEN FALSE
    ELSE IF conversation_id \notin DOMAIN cd THEN FALSE
    ELSE IF cd[conversation_id].is_guest THEN TRUE
    ELSE cd[conversation_id].user_id = user_id

\* the conversation document, or None
get_conversation(cd, conversation_id) ==
    IF conversation_id \in DOMAIN cd THEN cd[conversation_id] ELSE None

\* the messages of the conversation
get_messages(ms, conversation_id) ==
    IF conversation_id \in DOMAIN ms THEN ms[conversation_id] ELSE [d \in {} |-> None]

\* a store without the documents of the conversation
delete_conversation(docs, conversation_id) ==
    [k \in DOMAIN docs \ {conversation_id} |-> docs[k]]

\* what an endpoint answered: the caller, the conversation, its document
\* before the call, whether a Firestore call raised, and the body
Answer(user_id, conversation_id, raised, body) ==
    [caller |-> user_id, conv |-> conversation_id,
     doc |-> get_conversation(conv_docs, conversation_id),
     raised |-> raised, body |-> body]

\* GET /conversations/{conversation_id}
GetConversation(user_id, c, own_raised, raised) ==
    /\ LET owns == user_owns_conversation(conv_docs, user_id, c, own_raised)
           conversation == get_conversation(conv_docs, c)
           code == IF ~owns THEN 404
                   ELSE IF raised THEN 500
                   ELSE IF conversation = None THEN 404 ELSE 200
       IN  last' = MkLast("get_conversation", "-", None, "-", code,
                          Answer(user_id, c, own_raised \/ (owns /\ raised),
                                 IF code = 200 THEN conversation ELSE None))
    /\ UNCHANGED <<now, guest_sessions, reqs, tokvars, user_chats, hist, ext>>

\* GET /conversations/{conversation_id}/messages
GetConversationMessages(user_id, c, own_raised, raised) ==
    /\ LET owns == user_owns_conversation(conv_docs, user_id, c, own_raised)
           code == IF ~owns THEN 404 ELSE IF raised THEN 500 ELSE 200
       IN  last' = MkLast("get_messages", "-", None, "-", code,
                          Answer(user_id, c, own_raised \/ (owns /\ raised),
                                 IF code = 200 THEN get_messages(messages, c) ELSE None))
    /\ UNCHANGED <<now, guest_sessions, reqs, tokvars, user_chats, hist, ext>>

\* DELETE /conversations/{conversation_id}: a raising batch is answered 500
\* and deletes nothing
DeleteConversation(user_id, c, own_raised, raised) ==
    /\ LET owns == user_owns_conversation(conv_docs, user_id, c, own_raised)
           code == IF ~owns THEN 404 ELSE IF raised THEN 500 ELSE 200
       IN  /\ last' = MkLast("delete_conversation", "-", None, "-", code,
                             Answer(user_id, c, own_raised \/ (owns /\ raised), None))
           /\ IF code = 200
              THEN /\ conv_docs' = delete_conversation(conv_docs, c)
                   /\ messages' = delete_conversation(messages, c)
              ELSE UNCHANGED <<conv_docs, messages>>
    /\ UNCHANGED <<now, guest_sessions, reqs, tokvars, user_chats, hist,
                   clk, msg_log, conversations, calls, oauth, tool>>

OwnQueries == {"q1"}

\* chat requests of users and guests, one at a time, and the conversation
\* endpoints
NextOwn ==
    \/ \E c \in ConvIds, q \in OwnQueries, code \in SaveOutcomes, user \in ChatCallers :
           SendUserMessage(1, c, q, code, user)
    \/ \E out \in Outputs, code \in SaveOutcomes : AgentReturn(1, "output", out, code)
    \/ \E u \in ConvUsers, c \in ConvIds, a, b \in Raises : GetConversation(u, c, a, b)
    \/ \E u \in ConvUsers, c \in ConvIds, a, b \in Raises : GetConversationMessages(u, c, a, b)
    \/ \E u \in ConvUsers, c \in ConvIds, a, b \in Raises : DeleteConversation(u, c, a, b)

SpecOwn == Init /\ [][NextOwn]_vars


----------------------------------------------------------------------------
(* Properties of the conversation endpoints (SpecOwn) *)

ConversationOps == {"get_conversation", "get_messages", "delete_conversation"}

\* the conversation exists and is the caller's or a guest conversation
OwnedOrGuest(answer) ==
    /\ answer.doc # None
    /\ answer.doc.is_guest \/ answer.doc.user_id = answer.caller

\* C23: the conversation read, message-list and delete endpoints answer 200
\* only for a conversation that exists and is the caller's or a guest
\* conversation: the read answers its document, the message list its
\* messages, the delete removes the document and the messages of that
\* conversation and of no other; for any other conversation they answer 404;
\* whenever the answer is not 200 nothing is changed; and while no Firestore
\* call raises, every authenticated caller is answered 200 for a guest
\* conversation.
C23_OwnedOrGuestElseNotFound ==
    [][last'.op \in ConversationOps =>
          LET a == last'.status
              c == a.conv
          IN  /\ last'.code = 200 => OwnedOrGuest(a)
              /\ ~OwnedOrGuest(a) => last'.code = 404
              /\ last'.code # 200 => conv_docs' = conv_docs /\ messages' = messages
              /\ (OwnedOrGuest(a) /\ ~a.raised) => last'.code = 200
              /\ (last'.code = 200 /\ last'.op = "get_conversation") =>
                    a.body = conv_docs[c] /\ conv_docs' = conv_docs /\ messages' = messages
              /\ (last'.code = 200 /\ last'.op = "get_messages") =>
                    /\ a.body = (IF c \in DOMAIN messages THEN messages[c] ELSE << >>)
                    /\ conv_docs' = conv_docs /\ messages' = messages
              /\ (last'.code = 200 /\ last'.op = "delete_conversation") =>
                    /\ c \notin DOMAIN conv_docs' /\ c \notin DOMAIN messages'
                    /\ \A d \in ConvIds \ {c} :
                          /\ d \in DOMAIN conv_docs' <=> d \in DOMAIN conv_docs
                          /\ d \in DOMAIN conv_docs => conv_docs'[d] = conv_docs[d]
                          /\ d \in DOMAIN messages' <=> d \in DOMAIN messages
                          /\ d \in DOMAIN messages => messages'[d] = messages[d]
    ]_vars

\* a user has deleted a guest conversation that held messages, while the
\* other conversation is another user's
C23_Witness ==
    /\ last.op = "delete_conversation"
    /\ last.code = 200
    /\ last.status.doc.is_guest
    /\ last.status.doc.message_count >= 2
    /\ \E d \in DOMAIN conv_docs :
          /\ ~conv_docs[d].is_guest
          /\ conv_docs[d].user_id # last.status.caller

\* a user has been answered 404 for a conversation of another user
C23_WitnessNotFound ==
    /\ last.op \in ConversationOps
    /\ last.code = 404
    /\ ~last.status.raised
    /\ last.status.doc # None
    /\ ~last.status.doc.is_guest


----------------------------------------------------------------------------
(* Properties of the two token verifications (SpecRefresh) *)

\* the token was issued as the access token of a pair
IsAccessToken(tok) ==
    /\ tok \in issued
    /\ \E u \in AllUsers, t \in 0..now :
          tok = create_access_token(u, t) /\ tok # create_refresh_token(u, t)

\* the token was issued as the refresh token of a pair
IsRefreshToken(tok) ==
    /\ tok \in issued
    /\ \E u \in AllUsers, t \in 0..now :
          tok = create_refresh_token(u, t) /\ tok # create_access_token(u, t)

\* C24: verify_access_token and verify_refresh_token give the same answer
\* for every token; a lookup by a token that verify_refresh_token accepts,
\* that is not blacklisted and whose subject exists answers the user, and a
\* refresh with a token that verify_access_token accepts and whose subject
\* exists answers 200 with a new pair for that subject.
C24_SameTokensAccepted ==
    /\ \A tok \in Presentable :
          verify_access_token(tok, now) = verify_refresh_token(tok, now)
    /\ (/\ last.op = "svc_lookup"
        /\ verify_refresh_token(last.cred, now) # None
        /\ last.cred \notin blacklisted_tokens
        /\ last.cred.payload.sub \in users) => last.result = "user"
    /\ (/\ last.op = "refresh"
        /\ verify_access_token(last.cred, now) # None
        /\ last.cred.payload.sub \in users) =>
            /\ last.code = 200
            /\ last.status = generate_token_pair(last.cred.payload.sub, now)

\* a refresh with an access token has answered a new pair
C24_Witness ==
    /\ last.op = "refresh"
    /\ IsAccessToken(last.cred)
    /\ ~IsRefreshToken(last.cred)
    /\ last.code = 200
    /\ \E k \in issued :
          /\ IsRefreshToken(k)
          /\ verify_access_token(k, now) # None
          /\ k \notin blacklisted_tokens

\* a lookup by a refresh token has answered its user
C24_WitnessBearer ==
    /\ last.op = "svc_lookup"
    /\ IsRefreshToken(last.cred)
    /\ ~IsAccessToken(last.cred)
    /\ last.result = "user"


----------------------------------------------------------------------------
(* Properties of POST /auth/logout (SpecLogout) *)

\* C25: a logout request of an authenticated caller is always answered 200
\* with a success message, also when blacklisting raises and when the
\* handler extracts no token from the header; only a caller that
\* get_current_user_required refuses is answered an error, 401.
C25_LogoutAlwaysSucceeds ==
    [][last'.op = "logout" =>
          IF get_current_user_required(blacklisted_tokens, other_blacklisted,
                                       users, last'.cred, now) = 200
          THEN /\ last'.code = 200
               /\ last'.result \in {"Successfully logged out", "Logged out"}
          ELSE last'.code = 401
    ]_vars

\* blacklisting has raised for an extracted token and the answer is 200
C25_Witness ==
    /\ last.op = "logout"
    /\ last.code = 200
    /\ last.status # None
    /\ last.status.scheme = "Bearer"
    /\ last.status.add_raises
    /\ last.result = "Logged out"

\* no token was extracted from the header and the answer is 200
C25_WitnessNoToken ==
    /\ last.op = "logout"
    /\ last.code = 200
    /\ last.status # None
    /\ last.status.scheme = "bearer"
    /\ last.cred \notin logged_out

====
